---- MODULE Spec2Model ----
(***************************************************************************)
(* A model of the comment board of modern-react-forms: the server action   *)
(* submitComment (read comments.json, append, write it back, revalidate    *)
(* the "comments" tag), the tagged reads of the pages (getComments over    *)
(* GET /api/comments), the optimistic list of OptimisticComments, the      *)
(* search filter of the search page and the validated submitFeedback       *)
(* action of the README.                                                   *)
(***************************************************************************)
EXTENDS Integers, Sequences, FiniteSets, TLC

\* ------------------------------------------------------------------ bounds

\* Submissions and tagged reads started in one behaviour.
MaxSubmits == 2
MaxReads == 2
\* Length of comments.json's array in the initial state.
MaxInitLen == 0

\* Invocations of submitComment that may run at the same time, and the page
\* render whose getComments calls interleave with them.
Submitters == {"s1", "s2"}
Readers == {"r1"}
\* The comment texts a form may carry (one character each).
Comments == {"a", "b"}

\* ------------------------------------------------------------------ state

VARIABLES
  file,              \* the text of comments.json, a sequence of characters
  cache,             \* the fetch cache's entry for the tag "comments"
  pc,                \* per invocation of submitComment: where it stands
  comment,           \* per invocation: formData.get('comment')
  existingComments,  \* per invocation: the parsed array of line 7
  failedAt,          \* per invocation: the step whose error escaped
  origin,            \* per invocation: the form that called it
  rpc,               \* per getComments call: where it stands
  body,              \* per getComments call: the response body it holds
  ret,               \* per getComments call: the array it returned
  since,             \* per getComments call: submissions complete at its start
  log0,              \* history: the array comments.json held initially
  writeOrder,        \* history: comments in the order their writes finished
  completed,         \* history: comments in the order submitComment returned
  overlapped,        \* history: a submission read the log while another held a snapshot
  raced,             \* history: the tag was invalidated while a read held an unstored body
  nSubmits,          \* submissions started
  nReads,            \* tagged reads started
  doneAt,            \* history, per invocation: its place in completed (0: not returned)
  comments,          \* OptimisticComments: the comments prop (authoritative)
  pending,           \* OptimisticComments: optimistic updates of unsettled actions
  optimisticComments, \* OptimisticComments: the list on display
  searchComments,    \* search page: the array response.json() gave getComments
  searchQuery,       \* search page: searchParams.query
  searchResult,      \* search page: what getComments(searchQuery) returned
  searchPc,          \* search page: "ready", then "done"
  formValues,        \* submitFeedback: the three values read from formData
  feedbackState,     \* submitFeedback: the state useActionState holds
  feedbackPc         \* submitFeedback: "ready", then "done"

serverVars == <<file, cache, pc, comment, existingComments, failedAt, origin,
                writeOrder, completed, overlapped, raced, nSubmits, log0, doneAt>>
readerVars == <<rpc, body, ret, since, nReads>>
clientVars == <<comments, pending, optimisticComments>>
searchVars == <<searchComments, searchQuery, searchResult, searchPc>>
feedbackVars == <<formValues, feedbackState, feedbackPc>>
pureVars == <<searchVars, feedbackVars>>
vars == <<serverVars, readerVars, clientVars, pureVars>>

\* ---------------------------------------------------------------- helpers

Range(s) == {s[i] : i \in DOMAIN s}

SeqsUpTo(S, n) == UNION {[1..k -> S] : k \in 0..n}

\* A response body that is no JSON text (and the body of a file cut to nothing).
Truncated == <<>>

\* JSON.stringify of an array of one-character strings, ["a","b"], as the
\* sequence of its characters; "'" stands for the quotation mark.
RECURSIVE JSONelements(_)
JSONelements(arr) ==
  IF arr = <<>> THEN <<>>
  ELSE IF Len(arr) = 1 THEN <<"'", arr[1], "'">>
  ELSE <<"'", arr[1], "'", ",">> \o JSONelements(Tail(arr))

JSONstringify(arr) == <<"[">> \o JSONelements(arr) \o <<"]">>

\* JSON.parse of such a text: the elements from position i on, or a syntax error.
RECURSIVE ParseElements(_, _)
ParseElements(text, i) ==
  IF i + 3 > Len(text) THEN [ok |-> FALSE, value |-> <<>>]
  ELSE IF ~(text[i] = "'" /\ text[i + 1] \in Comments /\ text[i + 2] = "'")
    THEN [ok |-> FALSE, value |-> <<>>]
  ELSE IF text[i + 3] = "]"
    THEN [ok |-> i + 3 = Len(text), value |-> <<text[i + 1]>>]
  ELSE IF text[i + 3] = ","
    THEN LET rest == ParseElements(text, i + 4)
         IN  [ok |-> rest.ok, value |-> <<text[i + 1]>> \o rest.value]
  ELSE [ok |-> FALSE, value |-> <<>>]

JSONparse(text) ==
  IF Len(text) < 2 \/ text[1] # "["
    THEN [ok |-> FALSE, value |-> <<>>]
  ELSE IF text = <<"[", "]">> THEN [ok |-> TRUE, value |-> <<>>]
  ELSE LET r == ParseElements(text, 2)
       IN  IF r.ok THEN r ELSE [ok |-> FALSE, value |-> <<>>]

\* --------------------------------------------------- the tagged fetch cache

\* fetch(url, {next: {tags: ['comments']}}): the entry is served while fresh.
CacheFresh(c) == c.state = "fresh"

\* The fetcher's response body is stored under the tag and marked fresh.
CacheStore(c, b) == [c EXCEPT !.state = "fresh", !.body = b]

\* revalidateTag('comments'): every entry of the tag becomes stale.
revalidateTag(c) ==
  [c EXCEPT !.state = IF c.state = "absent" THEN "absent" ELSE "stale",
            !.revalidations = @ + 1]

\* ------------------------------------------------------------ submitComment

Running(s) == pc[s] \in {"read", "write", "writing", "revalidate"}
HoldsSnapshot(s) == pc[s] \in {"write", "writing"}
PendingSlots == {pending[i].slot : i \in DOMAIN pending}
Free(s) == ~Running(s) /\ s \notin PendingSlots

\* A form calls the server action: the invocation starts at line 7.
Invoke(s, c, o) ==
  /\ Free(s)
  /\ nSubmits < MaxSubmits
  /\ nSubmits' = nSubmits + 1
  /\ pc' = [pc EXCEPT ![s] = "read"]
  /\ comment' = [comment EXCEPT ![s] = c]
  /\ origin' = [origin EXCEPT ![s] = o]
  /\ existingComments' = [existingComments EXCEPT ![s] = <<>>]
  /\ failedAt' = [failedAt EXCEPT ![s] = "none"]
  /\ doneAt' = [doneAt EXCEPT ![s] = 0]
  /\ UNCHANGED <<file, cache, writeOrder, completed, overlapped, raced, log0>>

\* <form action={submitComment}> of the Comments component.
FormSubmit(s, c) ==
  /\ Invoke(s, c, "form")
  /\ UNCHANGED <<readerVars, clientVars, pureVars>>

\* Faulty variant: the error is caught and the action returns normally.
ThrowSwallowed(s, step) ==
  /\ pc' = [pc EXCEPT ![s] = "done"]
  /\ failedAt' = [failedAt EXCEPT ![s] = step]
  /\ existingComments' = [existingComments EXCEPT ![s] = <<>>]
  /\ UNCHANGED comment

\* An error escapes the action: nothing catches it, the call rejects.
Throw(s, step) ==
  /\ pc' = [pc EXCEPT ![s] = "threw"]
  /\ failedAt' = [failedAt EXCEPT ![s] = step]
  /\ existingComments' = [existingComments EXCEPT ![s] = <<>>]
  /\ UNCHANGED comment

\* Line 7: await readFile('comments.json', 'utf8'), then JSON.parse. readFile may
\* reject, JSON.parse throws on a text that is no JSON; either error escapes.
ReadExisting(s) ==
  /\ pc[s] = "read"
  /\ \/ /\ Throw(s, "read")
        /\ UNCHANGED overlapped
     \/ /\ ~JSONparse(file).ok
        /\ Throw(s, "parse")
        /\ UNCHANGED overlapped
     \/ /\ JSONparse(file).ok
        /\ existingComments' = [existingComments EXCEPT ![s] = JSONparse(file).value]
        /\ pc' = [pc EXCEPT ![s] = "write"]
        /\ overlapped' = (overlapped \/ \E t \in Submitters \ {s} : HoldsSnapshot(t))
        /\ UNCHANGED <<failedAt, comment>>
  /\ UNCHANGED <<file, cache, origin, writeOrder, completed, raced,
                 nSubmits, log0, doneAt, readerVars, clientVars, pureVars>>

\* Faulty variant: the new comment replaces the array.
NewCommentsOnly(s) == <<comment[s]>>

\* Faulty variant: the new comment is put first.
NewCommentsPrepended(s) == <<comment[s]>> \o existingComments[s]

\* Line 11, the argument: [...existingComments, comment].
NewComments(s) == Append(existingComments[s], comment[s])

\* Faulty variant: revalidateTag sits in a finally block: it runs when the write fails.
WriteOpenFinally(s) ==
  /\ pc[s] = "write"
  /\ \/ /\ file' = Truncated
        /\ pc' = [pc EXCEPT ![s] = "writing"]
        /\ UNCHANGED <<failedAt, comment, existingComments, cache>>
     \/ /\ Throw(s, "write")
        /\ cache' = revalidateTag(cache)
        /\ UNCHANGED file
  /\ UNCHANGED <<origin, writeOrder, completed,
                 overlapped, raced, nSubmits, log0, doneAt, readerVars, clientVars, pureVars>>

\* Line 11: writeFile opens comments.json for writing, which cuts it to nothing,
\* or fails to open it and leaves it as it is.
WriteOpen(s) ==
  /\ pc[s] = "write"
  /\ \/ /\ file' = Truncated
        /\ pc' = [pc EXCEPT ![s] = "writing"]
        /\ UNCHANGED <<failedAt, comment, existingComments>>
     \/ /\ Throw(s, "write")
        /\ UNCHANGED file
  /\ UNCHANGED <<cache, origin, writeOrder, completed,
                 overlapped, raced, nSubmits, log0, doneAt, readerVars, clientVars, pureVars>>

\* Faulty variant: writeFile is not awaited: its failure does not stop the action.
WriteFinishNotAwaited(s) ==
  /\ pc[s] = "writing"
  /\ \/ /\ file' = JSONstringify(NewComments(s))
        /\ writeOrder' = Append(writeOrder, comment[s])
     \/ UNCHANGED <<file, writeOrder>>
  /\ pc' = [pc EXCEPT ![s] = "revalidate"]
  /\ existingComments' = [existingComments EXCEPT ![s] = <<>>]
  /\ UNCHANGED <<failedAt, comment, cache, origin, completed,
                 overlapped, raced, nSubmits, log0, doneAt, readerVars, clientVars, pureVars>>

\* Line 11: writeFile writes the whole text and resolves, or fails part-way.
WriteFinish(s) ==
  /\ pc[s] = "writing"
  /\ \/ /\ file' = JSONstringify(NewComments(s))
        /\ writeOrder' = Append(writeOrder, comment[s])
        /\ pc' = [pc EXCEPT ![s] = "revalidate"]
        /\ existingComments' = [existingComments EXCEPT ![s] = <<>>]
        /\ UNCHANGED <<failedAt, comment>>
     \/ /\ Throw(s, "write")
        /\ UNCHANGED <<file, writeOrder>>
  /\ UNCHANGED <<cache, origin, completed,
                 overlapped, raced, nSubmits, log0, doneAt, readerVars, clientVars, pureVars>>

\* Faulty variant: the action returns without revalidating the tag.
RevalidateSkipped(s) ==
  /\ pc[s] = "revalidate"
  /\ completed' = Append(completed, comment[s])
  /\ doneAt' = [doneAt EXCEPT ![s] = Len(completed) + 1]
  /\ raced' = (raced \/ \E r \in Readers : rpc[r] = "store")
  /\ pc' = [pc EXCEPT ![s] = "done"]
  /\ UNCHANGED <<file, cache, comment, existingComments, failedAt, origin, writeOrder,
                 overlapped, nSubmits, log0, readerVars, clientVars, pureVars>>

\* Line 13: revalidateTag('comments'), and the action returns.
Revalidate(s) ==
  /\ pc[s] = "revalidate"
  /\ cache' = revalidateTag(cache)
  /\ completed' = Append(completed, comment[s])
  /\ doneAt' = [doneAt EXCEPT ![s] = Len(completed) + 1]
  /\ raced' = (raced \/ \E r \in Readers : rpc[r] = "store")
  /\ pc' = [pc EXCEPT ![s] = "done"]
  /\ UNCHANGED <<file, comment, existingComments, failedAt, origin, writeOrder,
                 overlapped, nSubmits, log0, readerVars, clientVars, pureVars>>

\* --------------------------------------------------------------- getComments

ReaderFree(r) == rpc[r] \in {"idle", "returned", "threw"}

\* response.json(): the array, or a rejection when the body is no JSON.
Json(r, b) ==
  /\ rpc' = [rpc EXCEPT ![r] = IF JSONparse(b).ok THEN "returned" ELSE "threw"]
  /\ ret' = [ret EXCEPT ![r] = JSONparse(b).value]
  /\ body' = [body EXCEPT ![r] = Truncated]

\* getComments calls fetch with the tag: a fresh entry is served from the cache,
\* otherwise the request goes out to GET /api/comments.
FetchTagged(r) ==
  /\ ReaderFree(r)
  /\ nReads < MaxReads
  /\ nReads' = nReads + 1
  /\ since' = [since EXCEPT ![r] = Len(completed)]
  /\ IF CacheFresh(cache)
       THEN Json(r, cache.body)
       ELSE /\ rpc' = [rpc EXCEPT ![r] = "fetch"]
            /\ body' = [body EXCEPT ![r] = Truncated]
            /\ ret' = [ret EXCEPT ![r] = <<>>]
  /\ UNCHANGED <<serverVars, clientVars, pureVars>>

\* GET of route.ts: readFile('comments.json') and a Response of its bytes; when
\* readFile rejects the route answers with an error and nothing is cached.
GET(r) ==
  /\ rpc[r] = "fetch"
  /\ \/ /\ body' = [body EXCEPT ![r] = file]
        /\ rpc' = [rpc EXCEPT ![r] = "store"]
     \/ /\ rpc' = [rpc EXCEPT ![r] = "threw"]
        /\ UNCHANGED body
  /\ UNCHANGED <<ret, since, nReads, serverVars, clientVars, pureVars>>

\* The response is stored under the tag, and getComments parses and returns it.
StoreAndReturn(r) ==
  /\ rpc[r] = "store"
  /\ cache' = CacheStore(cache, body[r])
  /\ Json(r, body[r])
  /\ UNCHANGED <<since, nReads, clientVars, pureVars>>
  /\ UNCHANGED <<file, pc, comment, existingComments, failedAt, origin,
                 writeOrder, completed, overlapped, raced, nSubmits, log0, doneAt>>

\* -------------------------------------------------------- OptimisticComments

\* Faulty variant: the new comment is put in front of the list.
reducerPrepend(state, newComment) == <<newComment>> \o state

\* Lines 30-33: the reducer given to useOptimistic, [...state, newComment].
reducer(state, newComment) == Append(state, newComment)

\* useOptimistic(comments, reducer): the list on display is the comments prop
\* with the reducer applied for each optimistic update of an unsettled action,
\* in the order of the calls.
RECURSIVE useOptimistic(_, _)
useOptimistic(passthrough, updates) ==
  IF updates = <<>> THEN passthrough
  ELSE useOptimistic(reducer(passthrough, updates[1].value), Tail(updates))

\* The updates left when the action of slot s settles.
Settled(updates, s) == SelectSeq(updates, LAMBDA u : u.slot # s)

\* Faulty variant: the action is called without the optimistic update.
handleFormSubmitNoUpdate(s, c) ==
  /\ Invoke(s, c, "optimistic")
  /\ UNCHANGED <<comments, pending, optimisticComments, readerVars, pureVars>>

\* Lines 41-44: addOptimisticComment(formData.get('comment')), then the call of
\* submitComment, which the action awaits.
handleFormSubmit(s, c) ==
  /\ Invoke(s, c, "optimistic")
  /\ pending' = Append(pending, [slot |-> s, value |-> c, n |-> nSubmits + 1])
  /\ optimisticComments' = reducer(optimisticComments, c)
  /\ UNCHANGED <<comments, readerVars, pureVars>>

\* submitComment rejected: the action ends, its optimistic update is dropped
\* and the list falls back to the comments prop.
SettleRejected(s) ==
  /\ pc[s] = "threw"
  /\ s \in PendingSlots
  /\ pending' = Settled(pending, s)
  /\ optimisticComments' = useOptimistic(comments, Settled(pending, s))
  /\ UNCHANGED <<comments, serverVars, readerVars, pureVars>>

\* submitComment returned: the page is rendered again with what getComments
\* returned after the revalidation (AddCommentPage), and the update is dropped.
SettleResolved(s, r) ==
  /\ pc[s] = "done"
  /\ s \in PendingSlots
  /\ rpc[r] = "returned"
  /\ since[r] >= doneAt[s]
  /\ comments' = ret[r]
  /\ pending' = Settled(pending, s)
  /\ optimisticComments' = useOptimistic(ret[r], Settled(pending, s))
  /\ UNCHANGED <<serverVars, readerVars, pureVars>>

\* ------------------------------------------------- the search page's filter

\* The characters of the queries of the search page, and those of its comments:
\* both hold a capital and a small letter, and a letter that tells them apart.
Letters == {"a", "A", "b"}
CommentLetters == {"A", "b"}

\* The query parameter when the URL has none.
Undefined == [defined |-> FALSE, text |-> <<>>]
QueryOf(text) == [defined |-> TRUE, text |-> text]

\* String.prototype.toLowerCase, a character at a time.
LowerChar(ch) ==
  CASE ch = "A" -> "a"
    [] ch = "B" -> "b"
    [] ch = "H" -> "h"
    [] OTHER -> ch

toLowerCase(str) == [i \in 1..Len(str) |-> LowerChar(str[i])]

\* String.prototype.includes.
includes(str, part) ==
  \E i \in 0..(Len(str) - Len(part)) : SubSeq(str, i + 1, i + Len(part)) = part

\* Faulty variant: the comment is compared as written.
filterCaseSensitive(list, query) ==
  IF ~query.defined \/ query.text = <<>> THEN list
  ELSE SelectSeq(list, LAMBDA c : includes(c, toLowerCase(query.text)))

\* Lines 19-21 of getComments: if (!searchQuery) return comments; otherwise
\* the comments whose lower case includes the query's lower case.
filter(list, query) ==
  IF ~query.defined \/ query.text = <<>> THEN list
  ELSE SelectSeq(list, LAMBDA c :
         includes(toLowerCase(c), toLowerCase(query.text)))

\* SearchPage: getComments(searchParams.query) on the fetched array.
SearchPage ==
  /\ searchPc = "ready"
  /\ searchResult' = filter(searchComments, searchQuery)
  /\ searchPc' = "done"
  /\ UNCHANGED <<searchComments, searchQuery, feedbackVars,
                 serverVars, readerVars, clientVars>>

\* ------------------------------------------------------------ submitFeedback

\* Line 100: name: z.string().min(2).max(100).
NameMin == 2
NameMax == 100
\* Line 102: feedback: z.string().min(10).max(1000).
FeedbackMin == 10
FeedbackMax == 1000

\* formData.get of a field the form did not send.
Null == [type |-> "null", text |-> <<>>]
Str(text) == [type |-> "string", text |-> text]

Fields == {"name", "email", "feedback"}

\* The characters of an e-mail address: a letter, the at sign, the dot.
EmailChars == {"a", "@", "."}

\* z.string().email(): no leading dot, no two dots in a row, a local part that
\* ends in a letter, one at sign, one or more labels each followed by a dot,
\* and a last label of two letters or more.
IsEmail(str) ==
  /\ Len(str) > 0
  /\ str[1] # "."
  /\ \A i \in 1..(Len(str) - 1) : ~(str[i] = "." /\ str[i + 1] = ".")
  /\ Cardinality({i \in DOMAIN str : str[i] = "@"}) = 1
  /\ LET at == CHOOSE i \in DOMAIN str : str[i] = "@"
         dots == {i \in DOMAIN str : i > at /\ str[i] = "."}
     IN  /\ at > 1
         /\ str[at - 1] # "."
         /\ at < Len(str)
         /\ str[at + 1] # "."
         /\ dots # {}
         /\ \A i \in dots : i + 2 <= Len(str)

\* Faulty variant: min(2) checked as "longer than 2".
StringIssuesOffByOne(value, min, max) ==
  IF value.type # "string" THEN <<"invalid_type">>
  ELSE (IF Len(value.text) <= min THEN <<"too_small">> ELSE <<>>)
         \o (IF Len(value.text) > max THEN <<"too_big">> ELSE <<>>)

\* z.string().min(min).max(max): the issues of one value, all of them.
StringIssues(value, min, max) ==
  IF value.type # "string" THEN <<"invalid_type">>
  ELSE (IF Len(value.text) < min THEN <<"too_small">> ELSE <<>>)
         \o (IF Len(value.text) > max THEN <<"too_big">> ELSE <<>>)

EmailIssues(value) ==
  IF value.type # "string" THEN <<"invalid_type">>
  ELSE IF IsEmail(value.text) THEN <<>> ELSE <<"invalid_string">>

\* Lines 99-103: feedbackSchema, the issues of each field.
feedbackSchema(values) ==
  [f \in Fields |->
     CASE f = "name" -> StringIssues(values.name, NameMin, NameMax)
       [] f = "email" -> EmailIssues(values.email)
       [] f = "feedback" -> StringIssues(values.feedback, FeedbackMin, FeedbackMax)]

\* error.flatten().fieldErrors: the fields that have issues, with their issues.
fieldErrors(issues) ==
  [f \in {g \in Fields : issues[g] # <<>>} |-> issues[f]]

\* Lines 105-127: submitFeedback(_, formData).
submitFeedback(values) ==
  LET issues == feedbackSchema(values)
      success == \A f \in Fields : issues[f] = <<>>
  IN  IF ~success
        THEN [errors |-> fieldErrors(issues), values |-> values]
        ELSE [success |-> TRUE]

\* The form action of useActionState(submitFeedback, null).
FormAction ==
  /\ feedbackPc = "ready"
  /\ feedbackState' = submitFeedback(formValues)
  /\ feedbackPc' = "done"
  /\ UNCHANGED <<formValues, searchVars, serverVars, readerVars, clientVars>>

\* ----------------------------------------------------------- specifications

NoCall == [s \in Submitters |-> "idle"]

\* comments.json holds an array, nothing runs.
InitStore ==
  /\ log0 \in SeqsUpTo(Comments, MaxInitLen)
  /\ file = JSONstringify(log0)
  /\ pc = NoCall
  /\ comment = [s \in Submitters |-> "a"]
  /\ existingComments = [s \in Submitters |-> <<>>]
  /\ failedAt = [s \in Submitters |-> "none"]
  /\ origin = [s \in Submitters |-> "form"]
  /\ doneAt = [s \in Submitters |-> 0]
  /\ rpc = [r \in Readers |-> "idle"]
  /\ body = [r \in Readers |-> Truncated]
  /\ ret = [r \in Readers |-> <<>>]
  /\ since = [r \in Readers |-> 0]
  /\ writeOrder = <<>>
  /\ completed = <<>>
  /\ overlapped = FALSE
  /\ raced = FALSE
  /\ nSubmits = 0
  /\ nReads = 0
  /\ pending = <<>>

InitSearchIdle ==
  /\ searchComments = <<>>
  /\ searchQuery = Undefined
  /\ searchResult = <<>>
  /\ searchPc = "ready"

InitFeedbackIdle ==
  /\ formValues = [name |-> Null, email |-> Null, feedback |-> Null]
  /\ feedbackState = Null
  /\ feedbackPc = "ready"

\* The server: nothing is cached yet.
Init ==
  /\ InitStore
  /\ cache = [state |-> "absent", body |-> Truncated, revalidations |-> 0]
  /\ comments = <<>>
  /\ optimisticComments = <<>>
  /\ InitSearchIdle
  /\ InitFeedbackIdle

Next ==
  \/ \E s \in Submitters, c \in Comments : FormSubmit(s, c)
  \/ \E s \in Submitters : ReadExisting(s)
  \/ \E s \in Submitters : WriteOpen(s)
  \/ \E s \in Submitters : WriteFinish(s)
  \/ \E s \in Submitters : Revalidate(s)
  \/ \E r \in Readers : FetchTagged(r)
  \/ \E r \in Readers : GET(r)
  \/ \E r \in Readers : StoreAndReturn(r)

Spec == Init /\ [][Next]_vars

\* The optimistic page: AddCommentPage has rendered OptimisticComments with the
\* array getComments returned, which the cache now holds.
InitOptimistic ==
  /\ InitStore
  /\ cache = [state |-> "fresh", body |-> file, revalidations |-> 0]
  /\ comments = log0
  /\ optimisticComments = log0
  /\ InitSearchIdle
  /\ InitFeedbackIdle

NextOptimistic ==
  \/ \E s \in Submitters, c \in Comments : handleFormSubmit(s, c)
  \/ \E s \in Submitters : ReadExisting(s)
  \/ \E s \in Submitters : WriteOpen(s)
  \/ \E s \in Submitters : WriteFinish(s)
  \/ \E s \in Submitters : Revalidate(s)
  \/ \E r \in Readers : FetchTagged(r)
  \/ \E r \in Readers : GET(r)
  \/ \E r \in Readers : StoreAndReturn(r)
  \/ \E s \in Submitters : SettleRejected(s)
  \/ \E s \in Submitters, r \in Readers : SettleResolved(s, r)

SpecOptimistic == InitOptimistic /\ [][NextOptimistic]_vars

\* The search page: any fetched array, any query, none included.
MaxRecords == 2
MaxStrLen == 2

Strings == SeqsUpTo(Letters, MaxStrLen)
CommentStrings == SeqsUpTo(CommentLetters, MaxStrLen)

InitSearch ==
  /\ InitStore
  /\ cache = [state |-> "absent", body |-> Truncated, revalidations |-> 0]
  /\ comments = <<>>
  /\ optimisticComments = <<>>
  /\ InitFeedbackIdle
  /\ searchComments \in SeqsUpTo(CommentStrings, MaxRecords)
  /\ searchQuery \in {Undefined} \cup {QueryOf(q) : q \in Strings}
  /\ searchResult = <<>>
  /\ searchPc = "ready"

SpecSearch == InitSearch /\ [][SearchPage]_vars

\* The feedback form: each field absent or a string, the lengths around the
\* schema's limits, the e-mail any short string of EmailChars.
MaxEmailLen == 6

Repeat(ch, n) == [i \in 1..n |-> ch]

NameInputs ==
  {Null} \cup {Str(Repeat("x", n)) :
                 n \in {0, NameMin - 1, NameMin, NameMin + 1, NameMax, NameMax + 1}}
FeedbackInputs ==
  {Null} \cup {Str(Repeat("x", n)) :
                 n \in {0, FeedbackMin - 1, FeedbackMin, FeedbackMax, FeedbackMax + 1}}
EmailInputs ==
  {Null} \cup {Str(e) : e \in SeqsUpTo(EmailChars, MaxEmailLen)}

InitFeedback ==
  /\ InitStore
  /\ cache = [state |-> "absent", body |-> Truncated, revalidations |-> 0]
  /\ comments = <<>>
  /\ optimisticComments = <<>>
  /\ InitSearchIdle
  /\ formValues \in [name : NameInputs, email : EmailInputs, feedback : FeedbackInputs]
  /\ feedbackState = Null
  /\ feedbackPc = "ready"

SpecFeedback == InitFeedback /\ [][FormAction]_vars

\* ------------------------------------------------------- claims: the server

Count(c, seq) == Cardinality({i \in DOMAIN seq : seq[i] = c})

IsPrefix(p, q) == Len(p) <= Len(q) /\ SubSeq(q, 1, Len(p)) = p

\* The array comments.json holds (empty when its text is no JSON).
StoredLog == JSONparse(file).value

\* How a call of submitComment ended for its caller.
Outcome(s) ==
  IF pc[s] = "done" THEN "resolved"
  ELSE IF pc[s] = "threw" THEN "rejected"
  ELSE "pending"

\* No call is running and none of the last calls was rejected.
AllReturned == \A s \in Submitters : pc[s] \in {"idle", "done"}

\* The tagged read r started after these submissions had returned.
ReturnedBefore(r) == {completed[i] : i \in 1..since[r]}

\* C1: the tag "comments" is invalidated only after a write that succeeded, and
\* every successful write is followed by exactly one invalidation before its
\* submission returns: the invalidations equal the submissions that returned,
\* and these and the ones about to revalidate equal the successful writes.
C1_InvalidatedOnceAfterWrite ==
  /\ cache.revalidations = Len(completed)
  /\ Len(completed) + Cardinality({s \in Submitters : pc[s] = "revalidate"})
       = Len(writeOrder)

\* A submission of "a" over an empty log returned: the log is <<"a">> and the
\* tag was invalidated once.
C1_Witness ==
  /\ log0 = <<>>
  /\ nSubmits = 1
  /\ \E s \in Submitters : pc[s] = "done"
  /\ StoredLog = <<"a">>
  /\ cache.revalidations = 1

\* C2 (as claimed): whatever the interleaving, once all submissions have
\* returned the log holds every submitted comment.
C2_NoLostWrites ==
  AllReturned => \A c \in Comments :
    Count(c, StoredLog) = Count(c, log0) + Count(c, completed)

\* C2 (amended): when no submission read the log while another held a snapshot
\* it had not yet written, once all have returned the log holds every one.
C2_NoLostWritesSerial ==
  (AllReturned /\ ~overlapped) => \A c \in Comments :
    Count(c, StoredLog) = Count(c, log0) + Count(c, completed)

\* Two submissions, one after the other, both in the log.
C2_Witness ==
  /\ ~overlapped
  /\ AllReturned
  /\ Len(completed) = 2
  /\ completed[1] # completed[2]
  /\ StoredLog = log0 \o completed

\* C3: with one writer at a time the log is append-only: whenever it is
\* readable it is the initial log followed by the written comments in the order
\* of their writes, and a body GET handed out is a prefix of that history.
C3_AppendOnly ==
  ~overlapped =>
    /\ JSONparse(file).ok => StoredLog = log0 \o writeOrder
    /\ \A r \in Readers :
         (rpc[r] = "store" /\ JSONparse(body[r]).ok)
           => IsPrefix(JSONparse(body[r]).value, log0 \o writeOrder)

\* After one submission GET handed out the initial log followed by the comment.
C3_Witness ==
  /\ ~overlapped
  /\ Len(writeOrder) = 1
  /\ \E r \in Readers :
       /\ rpc[r] = "store"
       /\ JSONparse(body[r]).ok
       /\ JSONparse(body[r]).value = log0 \o writeOrder

\* C4 (as claimed): a tagged read that starts after a submission of c has
\* returned gives back a log that holds c.
C4_ReadSeesCompleted ==
  \A r \in Readers :
    rpc[r] = "returned" => ReturnedBefore(r) \subseteq Range(ret[r])

\* C4 (amended): the same, when no submission read the log while another held
\* an unwritten snapshot, and no tagged read held a fetched body it had not
\* yet stored at the moment the tag was invalidated.
C4_ReadSeesCompletedUnraced ==
  \A r \in Readers :
    (rpc[r] = "returned" /\ ~overlapped /\ ~raced)
      => ReturnedBefore(r) \subseteq Range(ret[r])

\* A tagged read that started after a submission returned, with its comment.
C4_Witness ==
  \E r \in Readers :
    /\ rpc[r] = "returned"
    /\ ~overlapped /\ ~raced
    /\ since[r] >= 1
    /\ completed[1] \notin Range(log0)
    /\ completed[1] \in Range(ret[r])

C10_FailedNoEffect ==
  [][\A s \in Submitters :
       /\ (pc[s] # "threw" /\ pc'[s] = "threw") =>
            /\ cache' = cache
            /\ failedAt'[s] \in {"read", "parse"} => (pc[s] = "read" /\ file' = file)
            /\ failedAt'[s] = "write" => pc[s] \in {"write", "writing"}
       /\ pc[s] = "threw" => pc'[s] \in {"threw", "read"}
       /\ (cache'.revalidations # cache.revalidations) =>
            \E t \in Submitters : pc[t] = "revalidate" /\ pc'[t] = "done"]_vars

\* A call that failed parsing a file another call's failed write had cut.
C10_Witness ==
  \E s \in Submitters :
    /\ pc[s] = "threw"
    /\ failedAt[s] = "parse"
    /\ file = Truncated


\* ------------------------------------------- claims: the optimistic list

PendingValues == [i \in 1..Len(pending) |-> pending[i].value]

\* C5: a submission of x over the comments prop B shows B followed by x at once,
\* while the call of submitComment is still running; the entry stays until the
\* call settles; when the call rejects the prop is left as it is and the list
\* falls back to it; when it returns the prop becomes what getComments returned
\* after the revalidation, and the list is that array.
C5_OptimisticReconciliation ==
  /\ [](/\ pending = <<>> => optimisticComments = comments
        /\ Len(pending) = 1 => optimisticComments = Append(comments, pending[1].value)
        /\ \A s \in Submitters :
             (origin[s] = "optimistic" /\ Running(s)) => s \in PendingSlots)
  /\ [][\A s \in Submitters :
          /\ (s \notin PendingSlots /\ s \in PendingSlots') =>
               /\ pc'[s] = "read"
               /\ pending = <<>> => optimisticComments' = Append(comments, comment'[s])
          /\ (s \in PendingSlots /\ s \notin PendingSlots') =>
               /\ pc[s] \in {"done", "threw"}
               /\ pc[s] = "threw" => comments' = comments
               /\ pc[s] = "done" =>
                    \E r \in Readers : /\ rpc[r] = "returned"
                                       /\ since[r] >= doneAt[s]
                                       /\ comments' = ret[r]
               /\ pending' = <<>> => optimisticComments' = comments']_vars

\* The call of a lone submission was rejected at its write and the update has
\* been dropped: the list is the prop again.
C5_Witness ==
  /\ pending = <<>>
  /\ nSubmits = 1
  /\ \E s \in Submitters : pc[s] = "threw" /\ failedAt[s] = "write"
                           /\ origin[s] = "optimistic"
  /\ optimisticComments = comments

\* C6: the list on display is the comments prop followed by the values of the
\* unsettled submissions in the order they were submitted, each running
\* submission among them.
C6_PendingInOrder ==
  /\ optimisticComments = comments \o PendingValues
  /\ \A i, j \in DOMAIN pending :
       i < j => (pending[i].n < pending[j].n /\ pending[i].slot # pending[j].slot)
  /\ \A s \in Submitters :
       (origin[s] = "optimistic" /\ Running(s)) =>
         \E i \in DOMAIN pending : pending[i].slot = s /\ pending[i].value = comment[s]

\* Two submissions of different comments are both running.
C6_Witness ==
  /\ Len(pending) = 2
  /\ pending[1].value # pending[2].value
  /\ \A s \in Submitters : Running(s)
  /\ optimisticComments = comments \o <<pending[1].value, pending[2].value>>

\* ------------------------------------------------ claims: the search filter

\* The comment holds the query somewhere, letter case aside.
Matches(c, q) ==
  \E o \in 0..(Len(c) - Len(q)) :
    \A j \in 1..Len(q) : LowerChar(c[o + j]) = LowerChar(q[j])

MatchingIndexes ==
  {i \in DOMAIN searchComments : Matches(searchComments[i], searchQuery.text)}

\* The k-th smallest member of a set of numbers.
Kth(S, k) == CHOOSE i \in S : Cardinality({j \in S : j <= i}) = k

Hello == <<"H", "e", "l", "l", "o">>
World == <<"w", "o", "r", "l", "d">>
Help == <<"H", "e", "l", "p">>

\* C8: with no query or an empty one the result is the array as it is;
\* otherwise it is the comments that hold the query, letter case aside, in
\* their original order; the filter with "" and with no query both give the
\* array back, and filter(["Hello","world","Help"], "hel") is ["Hello","Help"].
C8_Filter ==
  searchPc = "done" =>
    /\ (~searchQuery.defined \/ searchQuery.text = <<>>) => searchResult = searchComments
    /\ (searchQuery.defined /\ searchQuery.text # <<>>) =>
         /\ Len(searchResult) = Cardinality(MatchingIndexes)
         /\ \A k \in 1..Len(searchResult) :
              searchResult[k] = searchComments[Kth(MatchingIndexes, k)]
    /\ filter(searchComments, QueryOf(<<>>)) = searchComments
    /\ filter(searchComments, Undefined) = searchComments
    /\ filter(<<Hello, World, Help>>, QueryOf(<<"h", "e", "l">>)) = <<Hello, Help>>

\* The query "ab" keeps "Ab" and drops "b".
C8_Witness ==
  /\ searchPc = "done"
  /\ searchQuery = QueryOf(<<"a", "b">>)
  /\ searchComments = <<<<"b">>, <<"A", "b">>>>
  /\ searchResult = <<<<"A", "b">>>>

\* ------------------------------------------------ claims: submitFeedback

IsString(v) == v.type = "string"

Violating ==
  {f \in Fields :
     CASE f = "name" ->
            ~(IsString(formValues.name) /\ Len(formValues.name.text) >= 2
                                        /\ Len(formValues.name.text) <= 100)
       [] f = "email" ->
            ~(IsString(formValues.email) /\ IsEmail(formValues.email.text))
       [] f = "feedback" ->
            ~(IsString(formValues.feedback) /\ Len(formValues.feedback.text) >= 10
                                            /\ Len(formValues.feedback.text) <= 1000)}

\* C9: the state is {success: true} exactly when the name has 2 to 100
\* characters, the e-mail is valid and the feedback has 10 to 1000 characters;
\* otherwise it is {errors, values} with errors for the violating fields and no
\* other, and values the submitted ones.
C9_Validation ==
  feedbackPc = "done" =>
    IF Violating = {}
      THEN feedbackState = [success |-> TRUE]
      ELSE /\ DOMAIN feedbackState = {"errors", "values"}
           /\ DOMAIN feedbackState.errors = Violating
           /\ \A f \in Violating : feedbackState.errors[f] # <<>>
           /\ feedbackState.values = formValues

\* A one-character name, an e-mail without at sign and a nine-character
\* feedback: errors for all three fields, the values echoed.
C9_Witness ==
  /\ feedbackPc = "done"
  /\ formValues = [name |-> Str(<<"x">>), email |-> Str(<<"a", ".", "a">>),
                   feedback |-> Str(Repeat("x", 9))]
  /\ DOMAIN feedbackState = {"errors", "values"}
  /\ DOMAIN feedbackState.errors = Fields
  /\ feedbackState.values = formValues

====
